---- MODULE Spec2Model ----
(***************************************************************************)
(* Model of CameraPrivate (src/mynteye/internal/camera_p.cc): the open /   *)
(* close lifecycle of the device and the decision when side-channel (HID)  *)
(* tracking is started and stopped.                                        *)
(*                                                                         *)
(* The collaborators Device, Channels, Motions and Streams are not part of *)
(* the source file; the few state bits of them that camera_p.cc reads or   *)
(* drives are modelled from their documented interface.                    *)
(***************************************************************************)
EXTENDS Integers, Sequences, FiniteSets, TLC

\* ----- bounds ------------------------------------------------------------
MaxMotionSize == 2      \* EnableMotionDatas(max_size) draws max_size from 1..MaxMotionSize
CountCap == 3           \* history counters saturate at this value
MaxCalSeed == 2         \* the transport answers a calibration request with one of 1..MaxCalSeed records per mode

\* ----- values ------------------------------------------------------------
ErrorCode == {"SUCCESS", "ERROR_FAILURE", "ERROR_CAMERA_OPEN_FAILED"}
ImageType == {"IMAGE_LEFT_COLOR", "IMAGE_DEPTH"}
ImuValues == {1, 2}     \* stand-ins for the raw inertial calibration records

\* a shared_ptr is the empty sequence (null) or a one-element sequence
NullPtr == <<>>
MakeShared(v) == <<v>>

\* Version is <<major, minor>>, Type is <<vendor, product>>
DefaultDescriptors ==
  [name |-> "", serial_number |-> "",
   firmware_version |-> <<0, 0>>, hardware_version |-> <<0, 0>>,
   spec_version |-> <<0, 0>>, lens_type |-> <<0, 0>>, imu_type |-> <<0, 0>>,
   nominal_baseline |-> 0]
FlashDescriptors ==
  [name |-> "MYNT-EYE-D", serial_number |-> "SN1",
   firmware_version |-> <<1, 2>>, hardware_version |-> <<2, 0>>,
   spec_version |-> <<1, 1>>, lens_type |-> <<0, 1>>, imu_type |-> <<0, 2>>,
   nominal_baseline |-> 3]

VARIABLES
  alive,               \* the CameraPrivate instance exists (not yet destructed)
  device,              \* Device:   [opened]
  channels,            \* Channels: [is_hid_exist, is_hid_tracking, imu_callback, img_callback]
  motions,             \* Motions:  [is_motion_datas_enabled, max_size]
  streams,             \* Streams:  [is_image_info_enabled, sync, stream_data_enabled, camera_open]
  descriptors_,        \* std::shared_ptr<device::Descriptors>
  motion_intrinsics_,  \* std::shared_ptr<MotionIntrinsics>
  motion_extrinsics_,  \* std::shared_ptr<MotionExtrinsics>
  last,                \* history: the last public operation, its result, its calls, the state before it
  lastTrack,           \* history: outcome of the last StartHidTracking / StopHidTracking
  opensSinceClose,     \* history: Device::Open invocations since the last Device::Close
  okOpensSinceClose,   \* history: successful Device::Open invocations since the last Device::Close
  flash,               \* environment: what Channels::GetFiles delivered to the constructor
  stream_intrinsics_,  \* std::shared_ptr<StreamIntrinsics>
  stream_extrinsics_,  \* std::shared_ptr<StreamExtrinsics>
  conc                 \* the threads of the concurrent specification (idle otherwise)

vars == <<alive, device, channels, motions, streams, descriptors_,
          motion_intrinsics_, motion_extrinsics_, last, lastTrack,
          opensSinceClose, okOpensSinceClose, flash,
          stream_intrinsics_, stream_extrinsics_, conc>>

\* what the lifecycle and toggle operations never touch
others == <<flash, stream_intrinsics_, stream_extrinsics_, conc>>

Bump(n) == IF n < CountCap THEN n + 1 ELSE n

Count(seq, x) == Cardinality({i \in DOMAIN seq : seq[i] = x})

\* ----- collaborators (interface only) --------------------------------------
DeviceIsOpened(dev) == dev.opened
\* Device::Open(params) -> bool; ok is the outcome of the hardware open
DeviceOpen(dev, ok) == [dev EXCEPT !.opened = ok]
DeviceClose(dev) == [dev EXCEPT !.opened = FALSE]

ChannelsIsAvaliable(ch) == ch.is_hid_exist
ChannelsIsHidAvaliable(ch) == ch.is_hid_exist
ChannelsIsHidTracking(ch) == ch.is_hid_tracking
ChannelsSetImuDataCallback(ch) == [ch EXCEPT !.imu_callback = TRUE]
ChannelsSetImgInfoCallback(ch) == [ch EXCEPT !.img_callback = TRUE]
\* StartHidTracking() -> bool; ok is the outcome of starting the HID thread
ChannelsStartHidTracking(ch, ok) == [ch EXCEPT !.is_hid_tracking = ok]
ChannelsStopHidTracking(ch) == [ch EXCEPT !.is_hid_tracking = FALSE]

MotionsIsMotionDatasEnabled(mo) == mo.is_motion_datas_enabled
MotionsEnableMotionDatas(mo, max_size) ==
  [mo EXCEPT !.is_motion_datas_enabled = TRUE, !.max_size = max_size]

StreamsIsImageInfoEnabled(st) == st.is_image_info_enabled
StreamsEnableImageInfo(st, sync) ==
  [st EXCEPT !.is_image_info_enabled = TRUE, !.sync = sync]
StreamsEnableStreamData(st, type) ==
  [st EXCEPT !.stream_data_enabled = @ \cup {type}]
StreamsOnCameraOpen(st) == [st EXCEPT !.camera_open = TRUE]
StreamsOnCameraClose(st) == [st EXCEPT !.camera_open = FALSE]

\* ----- CameraPrivate -------------------------------------------------------

\* mutation: ReadDeviceFlash that stores the inertial parameters without testing imu_params.ok
ReadDeviceFlash_IgnoresImuOk(ch, filesOk, imu) ==
  IF ~ChannelsIsAvaliable(ch)
    THEN [descriptors |-> NullPtr, intrinsics |-> NullPtr, extrinsics |-> NullPtr]
  ELSE IF ~filesOk
    THEN [descriptors |-> MakeShared(DefaultDescriptors),
          intrinsics |-> NullPtr, extrinsics |-> NullPtr]
  ELSE [descriptors |-> MakeShared(FlashDescriptors),
        intrinsics |-> MakeShared([accel |-> imu.in_accel, gyro |-> imu.in_gyro]),
        extrinsics |-> MakeShared(imu.ex_left_to_imu)]

\* ReadDeviceFlash(): filesOk is the result of Channels::GetFiles, imu the
\* raw inertial parameters it delivers ([ok, in_accel, in_gyro, ex_left_to_imu]).
ReadDeviceFlash(ch, filesOk, imu) ==
  IF ~ChannelsIsAvaliable(ch)
    THEN [descriptors |-> NullPtr, intrinsics |-> NullPtr, extrinsics |-> NullPtr]
  ELSE IF ~filesOk
    THEN [descriptors |-> MakeShared(DefaultDescriptors),
          intrinsics |-> NullPtr, extrinsics |-> NullPtr]
  ELSE IF imu.ok
    THEN [descriptors |-> MakeShared(FlashDescriptors),
          intrinsics |-> MakeShared([accel |-> imu.in_accel, gyro |-> imu.in_gyro]),
          extrinsics |-> MakeShared(imu.ex_left_to_imu)]
  ELSE [descriptors |-> MakeShared(FlashDescriptors),
        intrinsics |-> NullPtr, extrinsics |-> NullPtr]

\* CameraPrivate::Init(): the flash is read only when the channel is available
CameraInit(ch, filesOk, imu) ==
  IF ChannelsIsAvaliable(ch)
    THEN ReadDeviceFlash(ch, filesOk, imu)
    ELSE [descriptors |-> NullPtr, intrinsics |-> NullPtr, extrinsics |-> NullPtr]

\* MotionIntrinsics{} and MotionExtrinsics{}: the value-initialised results
DefaultMotionIntrinsics == [accel |-> 0, gyro |-> 0]
DefaultMotionExtrinsics == 0

\* GetMotionIntrinsics()
GetMotionIntrinsics(ptr) ==
  IF ptr # NullPtr THEN [val |-> ptr[1], log |-> ""]
  ELSE [val |-> DefaultMotionIntrinsics, log |-> "Motion intrinsics not found"]

\* GetMotionExtrinsics()
GetMotionExtrinsics(ptr) ==
  IF ptr # NullPtr THEN [val |-> ptr[1], log |-> ""]
  ELSE [val |-> DefaultMotionExtrinsics, log |-> "Motion extrinsics not found"]

\* mutation: WriteDeviceFlash without the IsAvaliable check
WriteDeviceFlash_NoAvailCheck(ch, writeOk) ==
  [ret |-> writeOk, trace |-> <<"Channels.SetFiles">>]

\* WriteDeviceFlash(desc, imu_params, spec_version): writeOk is the result of
\* Channels::SetFiles
WriteDeviceFlash(ch, writeOk) ==
  IF ~ChannelsIsAvaliable(ch)
    THEN [ret |-> FALSE, trace |-> <<"Channels.IsAvaliable", "LOGW">>]
    ELSE [ret |-> writeOk, trace |-> <<"Channels.IsAvaliable", "Channels.SetFiles">>]

\* ----- stream calibration -----
StreamMode == {"STREAM_1280x720", "STREAM_2560x720"}

\* element i of a C array (0-based)
At(arr, i) == arr[i + 1]

\* Device::GetCameraCalibration(stream_mode): record number k of that mode.
\* Every array element is a different number; the width is odd for odd k.
DeviceGetCameraCalibration(stream_mode, k) ==
  LET b == (IF stream_mode = "STREAM_1280x720" THEN 1000 ELSE 2000) + 100 * k
  IN [InImgWidth  |-> (IF stream_mode = "STREAM_1280x720" THEN 4 ELSE 8) + k,
      InImgHeight |-> (IF stream_mode = "STREAM_1280x720" THEN 3 ELSE 7) + k,
      CamMat1  |-> [i \in 1..9 |-> b + 10 + i],
      CamMat2  |-> [i \in 1..9 |-> b + 20 + i],
      CamDist1 |-> [i \in 1..5 |-> b + 30 + i],
      CamDist2 |-> [i \in 1..5 |-> b + 40 + i],
      RotaMat  |-> [i \in 1..9 |-> b + 50 + i],
      TranMat  |-> [i \in 1..3 |-> b + 60 + i]]

\* value-initialised StreamIntrinsics / StreamExtrinsics
DefaultCameraIntrinsics ==
  [width |-> 0, height |-> 0, fx |-> 0, fy |-> 0, cx |-> 0, cy |-> 0,
   coeffs |-> [i \in 1..5 |-> 0]]
DefaultStreamIntrinsics ==
  [left |-> DefaultCameraIntrinsics, right |-> DefaultCameraIntrinsics]
DefaultStreamExtrinsics ==
  [rotation |-> [r \in 1..3 |-> [c \in 1..3 |-> 0]],
   translation |-> [j \in 1..3 |-> 0]]

\* for (i = 0; i < n; i++) dst[i] = src[i]
CopyFirst(dst, src, n) ==
  [j \in DOMAIN dst |-> IF j <= n THEN At(src, j - 1) ELSE dst[j]]

\* mutation: GetStreamIntrinsics that fills the right lens from the left matrix
GetStreamIntrinsics_RightFromLeft(ptr, streamData) ==
  LET holder == IF ptr = NullPtr THEN DefaultStreamIntrinsics ELSE ptr[1]
      r == [holder EXCEPT
              !.left.width = streamData.InImgWidth \div 2,
              !.left.height = streamData.InImgHeight,
              !.left.fx = At(streamData.CamMat1, 0),
              !.left.fy = At(streamData.CamMat1, 4),
              !.left.cx = At(streamData.CamMat1, 2),
              !.left.cy = At(streamData.CamMat1, 5),
              !.left.coeffs = CopyFirst(@, streamData.CamDist1, 5),
              !.right.width = streamData.InImgWidth \div 2,
              !.right.height = streamData.InImgHeight,
              !.right.fx = At(streamData.CamMat1, 0),
              !.right.fy = At(streamData.CamMat1, 4),
              !.right.cx = At(streamData.CamMat1, 2),
              !.right.cy = At(streamData.CamMat1, 5),
              !.right.coeffs = CopyFirst(@, streamData.CamDist2, 5)]
  IN [ptr |-> MakeShared(r), val |-> r]

\* mutation: GetStreamIntrinsics that answers from the cache once it is filled
GetStreamIntrinsics_KeepsCached(ptr, streamData) ==
  IF ptr # NullPtr THEN [ptr |-> ptr, val |-> ptr[1]]
  ELSE
    LET r == [DefaultStreamIntrinsics EXCEPT
              !.left.width = streamData.InImgWidth \div 2,
              !.left.height = streamData.InImgHeight,
              !.left.fx = At(streamData.CamMat1, 0),
              !.left.fy = At(streamData.CamMat1, 4),
              !.left.cx = At(streamData.CamMat1, 2),
              !.left.cy = At(streamData.CamMat1, 5),
              !.left.coeffs = CopyFirst(@, streamData.CamDist1, 5),
              !.right.width = streamData.InImgWidth \div 2,
              !.right.height = streamData.InImgHeight,
              !.right.fx = At(streamData.CamMat2, 0),
              !.right.fy = At(streamData.CamMat2, 4),
              !.right.cx = At(streamData.CamMat2, 2),
              !.right.cy = At(streamData.CamMat2, 5),
              !.right.coeffs = CopyFirst(@, streamData.CamDist2, 5)]
    IN [ptr |-> MakeShared(r), val |-> r]

\* GetStreamIntrinsics(stream_mode): streamData is what GetCameraCalibration
\* returned; the holder is created on first use and then written in place
GetStreamIntrinsics(ptr, streamData) ==
  LET holder == IF ptr = NullPtr THEN DefaultStreamIntrinsics ELSE ptr[1]
      r == [holder EXCEPT
              !.left.width = streamData.InImgWidth \div 2,
              !.left.height = streamData.InImgHeight,
              !.left.fx = At(streamData.CamMat1, 0),
              !.left.fy = At(streamData.CamMat1, 4),
              !.left.cx = At(streamData.CamMat1, 2),
              !.left.cy = At(streamData.CamMat1, 5),
              !.left.coeffs = CopyFirst(@, streamData.CamDist1, 5),
              !.right.width = streamData.InImgWidth \div 2,
              !.right.height = streamData.InImgHeight,
              !.right.fx = At(streamData.CamMat2, 0),
              !.right.fy = At(streamData.CamMat2, 4),
              !.right.cx = At(streamData.CamMat2, 2),
              !.right.cy = At(streamData.CamMat2, 5),
              !.right.coeffs = CopyFirst(@, streamData.CamDist2, 5)]
  IN [ptr |-> MakeShared(r), val |-> r]

\* GetStreamExtrinsics(stream_mode)
GetStreamExtrinsics(ptr, streamData) ==
  LET holder == IF ptr = NullPtr THEN DefaultStreamExtrinsics ELSE ptr[1]
      r == [holder EXCEPT
              !.rotation = [row \in 1..3 |-> [col \in 1..3 |->
                              At(streamData.RotaMat, 3 * (row - 1) + (col - 1))]],
              !.translation = CopyFirst(@, streamData.TranMat, 3)]
  IN [ptr |-> MakeShared(r), val |-> r]

\* the field tags of GetDescriptor; "UNKNOWN" stands for any other enum value
KnownDescriptor == {"DEVICE_NAME", "SERIAL_NUMBER", "FIRMWARE_VERSION",
                    "HARDWARE_VERSION", "SPEC_VERSION", "LENS_TYPE", "IMU_TYPE",
                    "NOMINAL_BASELINE"}
Descriptor == KnownDescriptor \cup {"UNKNOWN"}

\* std::to_string on the small numbers the model uses: the decimal digits
StdToString(n) == <<"0", "1", "2", "3", "4", "5", "6", "7", "8", "9">>[n + 1]
\* Version::to_string(): "major.minor"
VersionToString(v) == StdToString(v[1]) \o "." \o StdToString(v[2])
\* Type::to_string(): vendor and product digits
TypeToString(t) == StdToString(t[1]) \o StdToString(t[2])

\* GetDescriptor(desc): the returned string and whether an error was logged
GetDescriptor(ptr, desc) ==
  IF ptr = NullPtr THEN [val |-> "", log |-> "Device information not found"]
  ELSE LET d == ptr[1] IN
    CASE desc = "DEVICE_NAME"      -> [val |-> d.name, log |-> ""]
      [] desc = "SERIAL_NUMBER"    -> [val |-> d.serial_number, log |-> ""]
      [] desc = "FIRMWARE_VERSION" -> [val |-> VersionToString(d.firmware_version), log |-> ""]
      [] desc = "HARDWARE_VERSION" -> [val |-> VersionToString(d.hardware_version), log |-> ""]
      [] desc = "SPEC_VERSION"     -> [val |-> VersionToString(d.spec_version), log |-> ""]
      [] desc = "LENS_TYPE"        -> [val |-> TypeToString(d.lens_type), log |-> ""]
      [] desc = "IMU_TYPE"         -> [val |-> TypeToString(d.imu_type), log |-> ""]
      [] desc = "NOMINAL_BASELINE" -> [val |-> StdToString(d.nominal_baseline), log |-> ""]
      [] OTHER                     -> [val |-> "", log |-> "Unknown device info"]

\* mutation: StartDataTracking without the "both disabled" early return
StartDataTracking_NoFeatureCheck(ch, mo, st, hidOk) ==
    LET ch1 == IF MotionsIsMotionDatasEnabled(mo)
                 THEN ChannelsSetImuDataCallback(ch) ELSE ch
        c1  == IF MotionsIsMotionDatasEnabled(mo)
                 THEN <<"Channels.SetImuDataCallback">> ELSE <<>>
        ch2 == IF StreamsIsImageInfoEnabled(st)
                 THEN ChannelsSetImgInfoCallback(ch1) ELSE ch1
        c2  == IF StreamsIsImageInfoEnabled(st)
                 THEN c1 \o <<"Channels.SetImgInfoCallback">> ELSE c1
        c3  == c2 \o <<"Channels.IsHidTracking">>
        c4  == c3 \o <<"Channels.IsHidAvaliable">>
    IN IF ChannelsIsHidTracking(ch2)
         THEN [channels |-> ch2, ret |-> TRUE, calls |-> c3, event |-> ""]
       ELSE IF ~ChannelsIsHidAvaliable(ch2)
         THEN [channels |-> ch2, ret |-> FALSE, calls |-> c4, event |-> ""]
       ELSE [channels |-> ChannelsStartHidTracking(ch2, hidOk), ret |-> hidOk,
             calls |-> c4 \o <<"Channels.StartHidTracking">>,
             event |-> IF hidOk THEN "started" ELSE "startFailed"]

\* mutation: StartDataTracking that registers the callbacks only once it knows
\* that tracking has to be started
StartDataTracking_RegisterAfterChecks(ch, mo, st, hidOk) ==
  IF ~MotionsIsMotionDatasEnabled(mo) /\ ~StreamsIsImageInfoEnabled(st)
    THEN [channels |-> ch, ret |-> FALSE, calls |-> <<>>, event |-> ""]
  ELSE IF ChannelsIsHidTracking(ch)
    THEN [channels |-> ch, ret |-> TRUE,
          calls |-> <<"Channels.IsHidTracking">>, event |-> ""]
  ELSE IF ~ChannelsIsHidAvaliable(ch)
    THEN [channels |-> ch, ret |-> FALSE,
          calls |-> <<"Channels.IsHidTracking", "Channels.IsHidAvaliable">>,
          event |-> ""]
  ELSE
    LET ch1 == IF MotionsIsMotionDatasEnabled(mo)
                 THEN ChannelsSetImuDataCallback(ch) ELSE ch
        c1  == IF MotionsIsMotionDatasEnabled(mo)
                 THEN <<"Channels.SetImuDataCallback">> ELSE <<>>
        ch2 == IF StreamsIsImageInfoEnabled(st)
                 THEN ChannelsSetImgInfoCallback(ch1) ELSE ch1
        c2  == IF StreamsIsImageInfoEnabled(st)
                 THEN c1 \o <<"Channels.SetImgInfoCallback">> ELSE c1
    IN [channels |-> ChannelsStartHidTracking(ch2, hidOk), ret |-> hidOk,
        calls |-> <<"Channels.IsHidTracking", "Channels.IsHidAvaliable">> \o c2
                  \o <<"Channels.StartHidTracking">>,
        event |-> IF hidOk THEN "started" ELSE "startFailed"]

\* mutation: StartDataTracking without the IsHidAvaliable check
StartDataTracking_NoAvailCheck(ch, mo, st, hidOk) ==
  IF ~MotionsIsMotionDatasEnabled(mo) /\ ~StreamsIsImageInfoEnabled(st)
    THEN [channels |-> ch, ret |-> FALSE, calls |-> <<>>, event |-> ""]
  ELSE
    LET ch1 == IF MotionsIsMotionDatasEnabled(mo)
                 THEN ChannelsSetImuDataCallback(ch) ELSE ch
        c1  == IF MotionsIsMotionDatasEnabled(mo)
                 THEN <<"Channels.SetImuDataCallback">> ELSE <<>>
        ch2 == IF StreamsIsImageInfoEnabled(st)
                 THEN ChannelsSetImgInfoCallback(ch1) ELSE ch1
        c2  == IF StreamsIsImageInfoEnabled(st)
                 THEN c1 \o <<"Channels.SetImgInfoCallback">> ELSE c1
        c3  == c2 \o <<"Channels.IsHidTracking">>
        c4  == c3 \o <<"Channels.IsHidAvaliable">>
    IN IF ChannelsIsHidTracking(ch2)
         THEN [channels |-> ch2, ret |-> TRUE, calls |-> c3, event |-> ""]
       ELSE [channels |-> ChannelsStartHidTracking(ch2, hidOk), ret |-> hidOk,
             calls |-> c3 \o <<"Channels.StartHidTracking">>,
             event |-> IF hidOk THEN "started" ELSE "startFailed"]

\* mutation: StartDataTracking without the IsHidTracking check
StartDataTracking_NoTrackingCheck(ch, mo, st, hidOk) ==
  IF ~MotionsIsMotionDatasEnabled(mo) /\ ~StreamsIsImageInfoEnabled(st)
    THEN [channels |-> ch, ret |-> FALSE, calls |-> <<>>, event |-> ""]
  ELSE
    LET ch1 == IF MotionsIsMotionDatasEnabled(mo)
                 THEN ChannelsSetImuDataCallback(ch) ELSE ch
        c1  == IF MotionsIsMotionDatasEnabled(mo)
                 THEN <<"Channels.SetImuDataCallback">> ELSE <<>>
        ch2 == IF StreamsIsImageInfoEnabled(st)
                 THEN ChannelsSetImgInfoCallback(ch1) ELSE ch1
        c2  == IF StreamsIsImageInfoEnabled(st)
                 THEN c1 \o <<"Channels.SetImgInfoCallback">> ELSE c1
        c3  == c2 \o <<"Channels.IsHidTracking">>
        c4  == c3 \o <<"Channels.IsHidAvaliable">>
    IN IF ~ChannelsIsHidAvaliable(ch2)
         THEN [channels |-> ch2, ret |-> FALSE, calls |-> c4, event |-> ""]
       ELSE [channels |-> ChannelsStartHidTracking(ch2, hidOk), ret |-> hidOk,
             calls |-> c4 \o <<"Channels.StartHidTracking">>,
             event |-> IF hidOk THEN "started" ELSE "startFailed"]

\* StartDataTracking(): hidOk is the result StartHidTracking would give.
\* Result: the channel afterwards, the return value, the Channels calls made
\* in order, and the tracking event ("" when StartHidTracking was not reached).
StartDataTracking(ch, mo, st, hidOk) ==
  IF ~MotionsIsMotionDatasEnabled(mo) /\ ~StreamsIsImageInfoEnabled(st)
    THEN [channels |-> ch, ret |-> FALSE, calls |-> <<>>, event |-> ""]
  ELSE
    LET ch1 == IF MotionsIsMotionDatasEnabled(mo)
                 THEN ChannelsSetImuDataCallback(ch) ELSE ch
        c1  == IF MotionsIsMotionDatasEnabled(mo)
                 THEN <<"Channels.SetImuDataCallback">> ELSE <<>>
        ch2 == IF StreamsIsImageInfoEnabled(st)
                 THEN ChannelsSetImgInfoCallback(ch1) ELSE ch1
        c2  == IF StreamsIsImageInfoEnabled(st)
                 THEN c1 \o <<"Channels.SetImgInfoCallback">> ELSE c1
        c3  == c2 \o <<"Channels.IsHidTracking">>
        c4  == c3 \o <<"Channels.IsHidAvaliable">>
    IN IF ChannelsIsHidTracking(ch2)
         THEN [channels |-> ch2, ret |-> TRUE, calls |-> c3, event |-> ""]
       ELSE IF ~ChannelsIsHidAvaliable(ch2)
         THEN [channels |-> ch2, ret |-> FALSE, calls |-> c4, event |-> ""]
       ELSE [channels |-> ChannelsStartHidTracking(ch2, hidOk), ret |-> hidOk,
             calls |-> c4 \o <<"Channels.StartHidTracking">>,
             event |-> IF hidOk THEN "started" ELSE "startFailed"]

\* StopDataTracking()
StopDataTracking(ch) ==
  IF ChannelsIsHidTracking(ch)
    THEN [channels |-> ChannelsStopHidTracking(ch),
          calls |-> <<"Channels.IsHidTracking", "Channels.StopHidTracking">>,
          event |-> "stopped"]
    ELSE [channels |-> ch, calls |-> <<"Channels.IsHidTracking">>, event |-> ""]

\* mutation: Open without the IsOpened early return
CameraOpen_NoOpenedCheck(dev, ch, mo, st, devOk, hidOk) ==
  LET dev1 == DeviceOpen(dev, devOk)
      t    == StartDataTracking(ch, mo, st, hidOk)
  IN IF ~devOk
       THEN [device |-> dev1, channels |-> ch, streams |-> st,
             ret |-> "ERROR_FAILURE",
             trace |-> <<"Device.Open">>,
             sdt |-> "none", event |-> ""]
       ELSE [device |-> dev1, channels |-> t.channels,
             streams |-> StreamsOnCameraOpen(st), ret |-> "SUCCESS",
             trace |-> <<"Device.Open", "StartDataTracking">>
                       \o t.calls \o <<"Streams.OnCameraOpen">>,
             sdt |-> IF t.ret THEN "true" ELSE "false", event |-> t.event]

\* mutation: Open that does not evaluate tracking activation
CameraOpen_NoTracking(dev, ch, mo, st, devOk, hidOk) ==
  IF DeviceIsOpened(dev)
    THEN [device |-> dev, channels |-> ch, streams |-> st, ret |-> "SUCCESS",
          trace |-> <<"Device.IsOpened">>, sdt |-> "none", event |-> ""]
  ELSE IF ~devOk
    THEN [device |-> DeviceOpen(dev, devOk), channels |-> ch, streams |-> st,
          ret |-> "ERROR_FAILURE",
          trace |-> <<"Device.IsOpened", "Device.Open">>,
          sdt |-> "none", event |-> ""]
  ELSE [device |-> DeviceOpen(dev, devOk), channels |-> ch,
        streams |-> StreamsOnCameraOpen(st), ret |-> "SUCCESS",
        trace |-> <<"Device.IsOpened", "Device.Open", "Streams.OnCameraOpen">>,
        sdt |-> "none", event |-> ""]

\* mutation: Open that treats a failed StartDataTracking as fatal
CameraOpen_TrackingFatal(dev, ch, mo, st, devOk, hidOk) ==
  IF DeviceIsOpened(dev)
    THEN [device |-> dev, channels |-> ch, streams |-> st, ret |-> "SUCCESS",
          trace |-> <<"Device.IsOpened">>, sdt |-> "none", event |-> ""]
  ELSE
    LET dev1 == DeviceOpen(dev, devOk)
        t    == StartDataTracking(ch, mo, st, hidOk)
    IN IF ~devOk
         THEN [device |-> dev1, channels |-> ch, streams |-> st,
               ret |-> "ERROR_FAILURE",
               trace |-> <<"Device.IsOpened", "Device.Open">>,
               sdt |-> "none", event |-> ""]
       ELSE IF ~t.ret
         THEN [device |-> dev1, channels |-> t.channels, streams |-> st,
               ret |-> "ERROR_FAILURE",
               trace |-> <<"Device.IsOpened", "Device.Open", "StartDataTracking">>
                         \o t.calls,
               sdt |-> "false", event |-> t.event]
       ELSE [device |-> dev1, channels |-> t.channels,
             streams |-> StreamsOnCameraOpen(st), ret |-> "SUCCESS",
             trace |-> <<"Device.IsOpened", "Device.Open", "StartDataTracking">>
                       \o t.calls \o <<"Streams.OnCameraOpen">>,
             sdt |-> "true", event |-> t.event]

\* Open(params): devOk is the result of Device::Open, hidOk of StartHidTracking.
\* sdt is "none" when StartDataTracking was not invoked, else its return value.
CameraOpen(dev, ch, mo, st, devOk, hidOk) ==
  IF DeviceIsOpened(dev)
    THEN [device |-> dev, channels |-> ch, streams |-> st, ret |-> "SUCCESS",
          trace |-> <<"Device.IsOpened">>, sdt |-> "none", event |-> ""]
  ELSE
    LET dev1 == DeviceOpen(dev, devOk)
        t    == StartDataTracking(ch, mo, st, hidOk)
    IN IF ~devOk
         THEN [device |-> dev1, channels |-> ch, streams |-> st,
               ret |-> "ERROR_FAILURE",
               trace |-> <<"Device.IsOpened", "Device.Open">>,
               sdt |-> "none", event |-> ""]
         ELSE [device |-> dev1, channels |-> t.channels,
               streams |-> StreamsOnCameraOpen(st), ret |-> "SUCCESS",
               trace |-> <<"Device.IsOpened", "Device.Open", "StartDataTracking">>
                         \o t.calls \o <<"Streams.OnCameraOpen">>,
               sdt |-> IF t.ret THEN "true" ELSE "false", event |-> t.event]

\* mutation: Close that closes the transport before it stops tracking
CameraClose_TransportFirst(dev, ch, st) ==
  IF ~DeviceIsOpened(dev)
    THEN [device |-> dev, channels |-> ch, streams |-> st,
          trace |-> <<"Device.IsOpened">>, event |-> ""]
  ELSE
    LET s == StopDataTracking(ch)
    IN [device |-> DeviceClose(dev), channels |-> s.channels,
        streams |-> StreamsOnCameraClose(st),
        trace |-> <<"Device.IsOpened", "Device.Close", "StopDataTracking">>
                  \o s.calls \o <<"Streams.OnCameraClose">>,
        event |-> s.event]

\* mutation: Close without the IsOpened early return
CameraClose_NoOpenedCheck(dev, ch, st) ==
  LET s == StopDataTracking(ch)
  IN [device |-> DeviceClose(dev), channels |-> s.channels,
      streams |-> StreamsOnCameraClose(st),
      trace |-> <<"StopDataTracking">> \o s.calls
                \o <<"Streams.OnCameraClose", "Device.Close">>,
      event |-> s.event]

\* mutation: Close that also switches image-info off
CameraClose_ResetsImageInfo(dev, ch, st) ==
  IF ~DeviceIsOpened(dev)
    THEN [device |-> dev, channels |-> ch, streams |-> st,
          trace |-> <<"Device.IsOpened">>, event |-> ""]
  ELSE
    LET s == StopDataTracking(ch)
    IN [device |-> DeviceClose(dev), channels |-> s.channels,
        streams |-> [StreamsOnCameraClose(st) EXCEPT !.is_image_info_enabled = FALSE],
        trace |-> <<"Device.IsOpened", "StopDataTracking">> \o s.calls
                  \o <<"Streams.OnCameraClose", "Device.Close">>,
        event |-> s.event]

\* Close()
CameraClose(dev, ch, st) ==
  IF ~DeviceIsOpened(dev)
    THEN [device |-> dev, channels |-> ch, streams |-> st,
          trace |-> <<"Device.IsOpened">>, event |-> ""]
  ELSE
    LET s == StopDataTracking(ch)
    IN [device |-> DeviceClose(dev), channels |-> s.channels,
        streams |-> StreamsOnCameraClose(st),
        trace |-> <<"Device.IsOpened", "StopDataTracking">> \o s.calls
                  \o <<"Streams.OnCameraClose", "Device.Close">>,
        event |-> s.event]

\* mutation: EnableImageInfo that only sets the flag
CameraEnableImageInfo_NoTracking(ch, mo, st, sync, hidOk) ==
  [streams |-> StreamsEnableImageInfo(st, sync), channels |-> ch,
   trace |-> <<"Streams.EnableImageInfo">>, sdt |-> "none", event |-> ""]

\* EnableImageInfo(sync)
CameraEnableImageInfo(ch, mo, st, sync, hidOk) ==
  LET st1 == StreamsEnableImageInfo(st, sync)
      t   == StartDataTracking(ch, mo, st1, hidOk)
  IN [streams |-> st1, channels |-> t.channels,
      trace |-> <<"Streams.EnableImageInfo", "StartDataTracking">> \o t.calls,
      sdt |-> IF t.ret THEN "true" ELSE "false", event |-> t.event]

\* EnableStreamData(type)
CameraEnableStreamData(st, type) ==
  [streams |-> StreamsEnableStreamData(st, type),
   trace |-> <<"Streams.EnableStreamData">>]

\* mutation: EnableMotionDatas that only sets the flag
CameraEnableMotionDatas_NoTracking(ch, mo, st, max_size, hidOk) ==
  [motions |-> MotionsEnableMotionDatas(mo, max_size), channels |-> ch,
   trace |-> <<"Motions.EnableMotionDatas">>, sdt |-> "none", event |-> ""]

\* EnableMotionDatas(max_size)
CameraEnableMotionDatas(ch, mo, st, max_size, hidOk) ==
  LET mo1 == MotionsEnableMotionDatas(mo, max_size)
      t   == StartDataTracking(ch, mo1, st, hidOk)
  IN [motions |-> mo1, channels |-> t.channels,
      trace |-> <<"Motions.EnableMotionDatas", "StartDataTracking">> \o t.calls,
      sdt |-> IF t.ret THEN "true" ELSE "false", event |-> t.event]

\* ----- the state machine ---------------------------------------------------
Snapshot == [opened |-> device.opened,
             tracking |-> channels.is_hid_tracking,
             imu_callback |-> channels.imu_callback,
             img_callback |-> channels.img_callback,
             camera_open |-> streams.camera_open]

Track(event) == IF event = "" THEN lastTrack ELSE event

\* no thread is inside an operation
ConcIdle == [pc |-> [t \in {} |-> ""], startWhileActive |-> FALSE,
             closeTracking |-> "none"]

\* the constructor: channel availability and the flash content are the environment
Init ==
  \E exist \in BOOLEAN, filesOk \in BOOLEAN, imuOk \in BOOLEAN,
     a \in ImuValues, g \in ImuValues, e \in ImuValues :
    \* GetFiles is not called on an absent channel and delivers nothing when it fails
    /\ ~exist => ~filesOk
    /\ ~filesOk => (~imuOk /\ a = 1 /\ e = 1)
    \* the accelerometer and gyroscope records are told apart
    /\ a # g
    /\ LET ch == [is_hid_exist |-> exist, is_hid_tracking |-> FALSE,
                  imu_callback |-> FALSE, img_callback |-> FALSE]
           f  == CameraInit(ch, filesOk,
                   [ok |-> imuOk, in_accel |-> a, in_gyro |-> g, ex_left_to_imu |-> e])
       IN /\ alive = TRUE
          /\ device = [opened |-> FALSE]
          /\ channels = ch
          /\ motions = [is_motion_datas_enabled |-> FALSE, max_size |-> 0]
          /\ streams = [is_image_info_enabled |-> FALSE, sync |-> FALSE,
                        stream_data_enabled |-> {}, camera_open |-> FALSE]
          /\ descriptors_ = f.descriptors
          /\ motion_intrinsics_ = f.intrinsics
          /\ motion_extrinsics_ = f.extrinsics
          /\ last = [op |-> "ctor", ret |-> "", trace |-> <<>>, sdt |-> "none",
                     devOk |-> FALSE,
                     pre |-> [opened |-> FALSE, tracking |-> FALSE,
                              imu_callback |-> FALSE, img_callback |-> FALSE,
                              camera_open |-> FALSE]]
          /\ lastTrack = "none"
          /\ opensSinceClose = 0
          /\ okOpensSinceClose = 0
          /\ flash = [filesOk |-> filesOk,
                      imu |-> [ok |-> imuOk, in_accel |-> a, in_gyro |-> g,
                               ex_left_to_imu |-> e]]
          /\ stream_intrinsics_ = NullPtr
          /\ stream_extrinsics_ = NullPtr
          /\ conc = ConcIdle

Open ==
  /\ alive
  /\ \E devOk \in BOOLEAN, hidOk \in BOOLEAN :
       LET r == CameraOpen(device, channels, motions, streams, devOk, hidOk)
           called == Count(r.trace, "Device.Open") > 0
       IN /\ device' = r.device
          /\ channels' = r.channels
          /\ streams' = r.streams
          /\ last' = [op |-> "Open", ret |-> r.ret, trace |-> r.trace,
                      sdt |-> r.sdt, devOk |-> devOk, pre |-> Snapshot]
          /\ lastTrack' = Track(r.event)
          /\ opensSinceClose' =
               IF called THEN Bump(opensSinceClose) ELSE opensSinceClose
          /\ okOpensSinceClose' =
               IF called /\ devOk THEN Bump(okOpensSinceClose) ELSE okOpensSinceClose
  /\ UNCHANGED <<alive, motions, descriptors_, motion_intrinsics_, motion_extrinsics_>>
  /\ UNCHANGED others

CloseStep(op) ==
  LET r == CameraClose(device, channels, streams)
      closed == Count(r.trace, "Device.Close") > 0
  IN /\ device' = r.device
     /\ channels' = r.channels
     /\ streams' = r.streams
     /\ last' = [op |-> op, ret |-> "", trace |-> r.trace, sdt |-> "none",
                 devOk |-> FALSE, pre |-> Snapshot]
     /\ lastTrack' = Track(r.event)
     /\ opensSinceClose' = IF closed THEN 0 ELSE opensSinceClose
     /\ okOpensSinceClose' = IF closed THEN 0 ELSE okOpensSinceClose
     /\ UNCHANGED <<motions, descriptors_, motion_intrinsics_, motion_extrinsics_>>
     /\ UNCHANGED others

Close ==
  /\ alive
  /\ CloseStep("Close")
  /\ UNCHANGED alive

\* ~CameraPrivate(): Close(), then the device handle is released
Destroy ==
  /\ alive
  /\ CloseStep("~CameraPrivate")
  /\ alive' = FALSE

EnableImageInfo ==
  /\ alive
  /\ \E sync \in BOOLEAN, hidOk \in BOOLEAN :
       LET r == CameraEnableImageInfo(channels, motions, streams, sync, hidOk)
       IN /\ streams' = r.streams
          /\ channels' = r.channels
          /\ last' = [op |-> "EnableImageInfo", ret |-> "", trace |-> r.trace,
                      sdt |-> r.sdt, devOk |-> FALSE, pre |-> Snapshot]
          /\ lastTrack' = Track(r.event)
  /\ UNCHANGED <<alive, device, motions, descriptors_, motion_intrinsics_,
                 motion_extrinsics_, opensSinceClose, okOpensSinceClose>>
  /\ UNCHANGED others

EnableStreamData ==
  /\ alive
  /\ \E type \in ImageType :
       LET r == CameraEnableStreamData(streams, type)
       IN /\ streams' = r.streams
          /\ last' = [op |-> "EnableStreamData", ret |-> "", trace |-> r.trace,
                      sdt |-> "none", devOk |-> FALSE, pre |-> Snapshot]
  /\ UNCHANGED <<alive, device, channels, motions, descriptors_, motion_intrinsics_,
                 motion_extrinsics_, lastTrack, opensSinceClose, okOpensSinceClose>>
  /\ UNCHANGED others

EnableMotionDatas ==
  /\ alive
  /\ \E max_size \in 1..MaxMotionSize, hidOk \in BOOLEAN :
       LET r == CameraEnableMotionDatas(channels, motions, streams, max_size, hidOk)
       IN /\ motions' = r.motions
          /\ channels' = r.channels
          /\ last' = [op |-> "EnableMotionDatas", ret |-> "", trace |-> r.trace,
                      sdt |-> r.sdt, devOk |-> FALSE, pre |-> Snapshot]
          /\ lastTrack' = Track(r.event)
  /\ UNCHANGED <<alive, device, streams, descriptors_, motion_intrinsics_,
                 motion_extrinsics_, opensSinceClose, okOpensSinceClose>>
  /\ UNCHANGED others

\* the read-only operations leave everything but the history alone
Query(op, arg, val, trace) ==
  /\ alive
  /\ last' = [op |-> op, ret |-> "", trace |-> trace, sdt |-> "none",
              devOk |-> FALSE, pre |-> Snapshot, arg |-> arg, val |-> val]
  /\ UNCHANGED <<alive, device, channels, motions, streams, descriptors_,
                 motion_intrinsics_, motion_extrinsics_, lastTrack,
                 opensSinceClose, okOpensSinceClose>>

GetDescriptorCall ==
  /\ \E desc \in Descriptor :
       LET r == GetDescriptor(descriptors_, desc)
       IN Query("GetDescriptor", desc, r.val,
                IF r.log = "" THEN <<>> ELSE <<"LOGE">>)
  /\ UNCHANGED others

GetMotionIntrinsicsCall ==
  /\ LET r == GetMotionIntrinsics(motion_intrinsics_)
     IN Query("GetMotionIntrinsics", "", r.val, IF r.log = "" THEN <<>> ELSE <<"LOGE">>)
  /\ UNCHANGED others

GetMotionExtrinsicsCall ==
  /\ LET r == GetMotionExtrinsics(motion_extrinsics_)
     IN Query("GetMotionExtrinsics", "", r.val, IF r.log = "" THEN <<>> ELSE <<"LOGE">>)
  /\ UNCHANGED others

\* the cached descriptors and calibration are not re-read after a write
WriteDeviceFlashCall ==
  /\ \E writeOk \in BOOLEAN :
       LET r == WriteDeviceFlash(channels, writeOk)
       IN Query("WriteDeviceFlash", writeOk, r.ret, r.trace)
  /\ UNCHANGED others

GetStreamIntrinsicsCall ==
  /\ alive
  /\ \E stream_mode \in StreamMode, k \in 1..MaxCalSeed :
       LET streamData == DeviceGetCameraCalibration(stream_mode, k)
           r == GetStreamIntrinsics(stream_intrinsics_, streamData)
       IN /\ stream_intrinsics_' = r.ptr
          /\ last' = [op |-> "GetStreamIntrinsics", ret |-> "",
                      trace |-> <<"Device.GetCameraCalibration">>, sdt |-> "none",
                      devOk |-> FALSE, pre |-> Snapshot,
                      arg |-> [stream_mode |-> stream_mode, cal |-> streamData],
                      val |-> r.val, preCache |-> stream_intrinsics_]
  /\ UNCHANGED <<alive, device, channels, motions, streams, descriptors_,
                 motion_intrinsics_, motion_extrinsics_, lastTrack,
                 opensSinceClose, okOpensSinceClose, flash, stream_extrinsics_, conc>>

GetStreamExtrinsicsCall ==
  /\ alive
  /\ \E stream_mode \in StreamMode, k \in 1..MaxCalSeed :
       LET streamData == DeviceGetCameraCalibration(stream_mode, k)
           r == GetStreamExtrinsics(stream_extrinsics_, streamData)
       IN /\ stream_extrinsics_' = r.ptr
          /\ last' = [op |-> "GetStreamExtrinsics", ret |-> "",
                      trace |-> <<"Device.GetCameraCalibration">>, sdt |-> "none",
                      devOk |-> FALSE, pre |-> Snapshot,
                      arg |-> [stream_mode |-> stream_mode, cal |-> streamData],
                      val |-> r.val, preCache |-> stream_extrinsics_]
  /\ UNCHANGED <<alive, device, channels, motions, streams, descriptors_,
                 motion_intrinsics_, motion_extrinsics_, lastTrack,
                 opensSinceClose, okOpensSinceClose, flash, stream_intrinsics_, conc>>

\* the calibration getters next to the open / close lifecycle
CalNext ==
  \/ GetStreamIntrinsicsCall
  \/ GetStreamExtrinsicsCall
  \/ Open
  \/ Close

CalSpec == Init /\ [][CalNext]_vars

\* ----- the operations as concurrent threads --------------------------------
\* camera_p.cc takes no lock: a thread inside an operation can be overtaken
\* between any two calls it makes on the collaborators.  One thread runs
\* EnableImageInfo, one EnableMotionDatas, one Open and one Close; pc is the
\* source line each is about to execute.
Threads == {"img", "imu", "open", "close"}
SdtThreads == {"img", "imu", "open"}
ConcStart == [pc |-> [t \in Threads |-> "start"], startWhileActive |-> FALSE,
              closeTracking |-> "none"]

At_(t, label) == conc.pc = [conc.pc EXCEPT ![t] = label] /\ DOMAIN conc.pc = Threads
Goto(t, label) == [conc EXCEPT !.pc[t] = label]
\* where StartDataTracking returns to
AfterSdt(t) == IF t = "open" THEN "l73" ELSE "done"
ConcFrame == UNCHANGED <<alive, descriptors_, motion_intrinsics_, motion_extrinsics_,
                         last, lastTrack, opensSinceClose, okOpensSinceClose,
                         flash, stream_intrinsics_, stream_extrinsics_>>

\* the threads are started on the freshly constructed instance
ConcSpawn ==
  /\ conc = ConcIdle /\ last.op = "ctor"
  /\ conc' = ConcStart
  /\ UNCHANGED <<device, channels, motions, streams>>
  /\ ConcFrame

\* line 205
ConcEnableImageInfo ==
  /\ At_("img", "start")
  /\ \E sync \in BOOLEAN : streams' = StreamsEnableImageInfo(streams, sync)
  /\ conc' = Goto("img", "l322")
  /\ UNCHANGED <<device, channels, motions>>
  /\ ConcFrame

\* line 230
ConcEnableMotionDatas ==
  /\ At_("imu", "start")
  /\ motions' = MotionsEnableMotionDatas(motions, 1)
  /\ conc' = Goto("imu", "l322")
  /\ UNCHANGED <<device, channels, streams>>
  /\ ConcFrame

\* lines 62-64
ConcOpenCheck ==
  /\ At_("open", "start")
  /\ conc' = Goto("open", IF DeviceIsOpened(device) THEN "done" ELSE "l66")
  /\ UNCHANGED <<device, channels, motions, streams>>
  /\ ConcFrame

\* lines 66-69
ConcDeviceOpen ==
  /\ At_("open", "l66")
  /\ \E devOk \in BOOLEAN :
       /\ device' = DeviceOpen(device, devOk)
       /\ conc' = Goto("open", IF devOk THEN "l322" ELSE "done")
  /\ UNCHANGED <<channels, motions, streams>>
  /\ ConcFrame

\* lines 322-325
ConcSdtFlags(t) ==
  /\ At_(t, "l322")
  /\ conc' = Goto(t, IF ~MotionsIsMotionDatasEnabled(motions)
                        /\ ~StreamsIsImageInfoEnabled(streams)
                       THEN AfterSdt(t) ELSE "l327")
  /\ UNCHANGED <<device, channels, motions, streams>>
  /\ ConcFrame

\* lines 327-330
ConcSdtImuCallback(t) ==
  /\ At_(t, "l327")
  /\ channels' = IF MotionsIsMotionDatasEnabled(motions)
                   THEN ChannelsSetImuDataCallback(channels) ELSE channels
  /\ conc' = Goto(t, "l332")
  /\ UNCHANGED <<device, motions, streams>>
  /\ ConcFrame

\* lines 332-335
ConcSdtImgCallback(t) ==
  /\ At_(t, "l332")
  /\ channels' = IF StreamsIsImageInfoEnabled(streams)
                   THEN ChannelsSetImgInfoCallback(channels) ELSE channels
  /\ conc' = Goto(t, "l337")
  /\ UNCHANGED <<device, motions, streams>>
  /\ ConcFrame

\* line 337
ConcSdtIsTracking(t) ==
  /\ At_(t, "l337")
  /\ conc' = Goto(t, IF ChannelsIsHidTracking(channels) THEN AfterSdt(t) ELSE "l339")
  /\ UNCHANGED <<device, channels, motions, streams>>
  /\ ConcFrame

\* lines 339-344
ConcSdtStart(t) ==
  /\ At_(t, "l339")
  /\ IF ~ChannelsIsHidAvaliable(channels)
       THEN /\ conc' = Goto(t, AfterSdt(t))
            /\ UNCHANGED channels
       ELSE \E hidOk \in BOOLEAN :
              /\ channels' = ChannelsStartHidTracking(channels, hidOk)
              /\ conc' = [Goto(t, AfterSdt(t)) EXCEPT
                            !.startWhileActive = @ \/ ChannelsIsHidTracking(channels)]
  /\ UNCHANGED <<device, motions, streams>>
  /\ ConcFrame

\* lines 73-74
ConcOnCameraOpen ==
  /\ At_("open", "l73")
  /\ streams' = StreamsOnCameraOpen(streams)
  /\ conc' = Goto("open", "done")
  /\ UNCHANGED <<device, channels, motions>>
  /\ ConcFrame

\* line 252
ConcCloseCheck ==
  /\ At_("close", "start")
  /\ conc' = Goto("close", IF ~DeviceIsOpened(device) THEN "done" ELSE "l348")
  /\ UNCHANGED <<device, channels, motions, streams>>
  /\ ConcFrame

\* line 348
ConcStopCheck ==
  /\ At_("close", "l348")
  /\ conc' = Goto("close", IF ChannelsIsHidTracking(channels) THEN "l349" ELSE "l254")
  /\ UNCHANGED <<device, channels, motions, streams>>
  /\ ConcFrame

\* line 349
ConcStopHid ==
  /\ At_("close", "l349")
  /\ channels' = ChannelsStopHidTracking(channels)
  /\ conc' = Goto("close", "l254")
  /\ UNCHANGED <<device, motions, streams>>
  /\ ConcFrame

\* line 254
ConcOnCameraClose ==
  /\ At_("close", "l254")
  /\ streams' = StreamsOnCameraClose(streams)
  /\ conc' = Goto("close", "l255")
  /\ UNCHANGED <<device, channels, motions>>
  /\ ConcFrame

\* lines 255-256: the transport is closed and Close returns
ConcDeviceClose ==
  /\ At_("close", "l255")
  /\ device' = DeviceClose(device)
  /\ conc' = [Goto("close", "done") EXCEPT
                !.closeTracking = IF ChannelsIsHidTracking(channels)
                                    THEN "active" ELSE "inactive"]
  /\ UNCHANGED <<channels, motions, streams>>
  /\ ConcFrame

ConcNext ==
  \/ ConcSpawn
  \/ ConcEnableImageInfo
  \/ ConcEnableMotionDatas
  \/ ConcOpenCheck
  \/ ConcDeviceOpen
  \/ \E t \in SdtThreads : ConcSdtFlags(t)
  \/ \E t \in SdtThreads : ConcSdtImuCallback(t)
  \/ \E t \in SdtThreads : ConcSdtImgCallback(t)
  \/ \E t \in SdtThreads : ConcSdtIsTracking(t)
  \/ \E t \in SdtThreads : ConcSdtStart(t)
  \/ ConcOnCameraOpen
  \/ ConcCloseCheck
  \/ ConcStopCheck
  \/ ConcStopHid
  \/ ConcOnCameraClose
  \/ ConcDeviceClose

ConcSpec == Init /\ [][ConcNext]_vars


Next ==
  \/ Open
  \/ Close
  \/ Destroy
  \/ EnableImageInfo
  \/ EnableStreamData
  \/ EnableMotionDatas
  \/ GetDescriptorCall
  \/ GetMotionIntrinsicsCall
  \/ GetMotionExtrinsicsCall
  \/ WriteDeviceFlashCall

Spec == Init /\ [][Next]_vars

TypeOK ==
  /\ alive \in BOOLEAN
  /\ device.opened \in BOOLEAN
  /\ channels.is_hid_tracking \in BOOLEAN
  /\ last.ret \in ErrorCode \cup {""}
  /\ last.op = "Open" => last.ret \in ErrorCode
  /\ lastTrack \in {"none", "started", "startFailed", "stopped"}
  /\ opensSinceClose \in 0..CountCap
  /\ okOpensSinceClose \in 0..CountCap

\* ----- properties ----------------------------------------------------------
Enabled == motions.is_motion_datas_enabled \/ streams.is_image_info_enabled
Avail == channels.is_hid_exist
Tracking == channels.is_hid_tracking
Calls(name) == Count(last.trace, name)
ChannelCalls == {"Channels.SetImuDataCallback", "Channels.SetImgInfoCallback",
                 "Channels.IsHidTracking", "Channels.IsHidAvaliable",
                 "Channels.StartHidTracking", "Channels.StopHidTracking"}
NoChannelCall == \A i \in DOMAIN last.trace : last.trace[i] \notin ChannelCalls
IsClose == last.op \in {"Close", "~CameraPrivate"}
OpenWhileOpened ==
  last.op = "Open" /\ last.pre.opened =>
    /\ last.ret = "SUCCESS"
    /\ Calls("Device.Open") = 0
    /\ Calls("StartDataTracking") = 0
    /\ Calls("Streams.OnCameraOpen") = 0

\* C1 (as stated): Open on an opened device returns SUCCESS and calls neither
\* Device::Open, StartDataTracking nor OnCameraOpen, and Device::Open is
\* invoked at most once between two Close calls that close the device.
C1_OpenInvokedAtMostOnce ==
  OpenWhileOpened /\ opensSinceClose <= 1

\* C1 (amended): Open on an opened device returns SUCCESS and calls neither
\* Device::Open, StartDataTracking nor OnCameraOpen, and Device::Open succeeds
\* at most once between two Close calls that close the device.
C1_OpenIdempotent ==
  OpenWhileOpened /\ okOpensSinceClose <= 1

C1_Witness ==
  /\ last.op = "Open" /\ last.pre.opened /\ last.ret = "SUCCESS"
  /\ opensSinceClose = 2 /\ okOpensSinceClose = 1

\* C2: Close on a device that is not opened calls neither Device::Close,
\* StopHidTracking nor OnCameraClose and leaves the opened flag, the tracking
\* flag and the registered callbacks as they were.
C2_CloseWhileClosedIsNoOp ==
  IsClose /\ ~last.pre.opened =>
    /\ Calls("Device.Close") = 0
    /\ Calls("Channels.StopHidTracking") = 0
    /\ Calls("Streams.OnCameraClose") = 0
    /\ Snapshot = last.pre

C2_Witness ==
  last.op = "Close" /\ ~last.pre.opened /\ last.pre.tracking /\ last.pre.imu_callback

\* C3 (as stated): tracking is active iff a tracked feature is enabled and the
\* side channel is available.
C3_TrackingIffEnabledAndAvailable ==
  Tracking <=> (Enabled /\ Avail)

\* C3 (amended): tracking is active only if a tracked feature is enabled and
\* the side channel is available; with a feature enabled and the channel
\* available, tracking is inactive only when the latest StartHidTracking failed
\* or a Close has stopped tracking since it was last started.
C3_TrackingOnlyIfEnabledAndAvailable ==
  /\ Tracking => (Enabled /\ Avail /\ lastTrack = "started")
  /\ (Enabled /\ Avail /\ ~Tracking) => lastTrack \in {"startFailed", "stopped"}

C3_Witness ==
  /\ Enabled /\ Avail /\ ~Tracking /\ lastTrack = "stopped"
  /\ last.op = "Close" /\ last.pre.tracking

\* C4 (as stated): after a successful Open with image-info or inertial data
\* enabled beforehand, tracking is active iff the side channel is available.
C4_TrackingAfterOpenIffAvailable ==
  (last.op = "Open" /\ last.ret = "SUCCESS" /\ Enabled) => (Tracking <=> Avail)

\* C4 (amended): after a successful Open with image-info or inertial data
\* enabled beforehand, tracking is active iff the side channel is available
\* and the latest StartHidTracking attempt did not fail.
C4_TrackingAfterOpen ==
  (last.op = "Open" /\ last.ret = "SUCCESS" /\ Enabled) =>
    (Tracking <=> (Avail /\ lastTrack # "startFailed"))

C4_Witness ==
  /\ last.op = "Open" /\ last.ret = "SUCCESS" /\ ~last.pre.opened
  /\ Enabled /\ Avail /\ Tracking /\ ~last.pre.tracking

\* C5: once Close or the destructor has returned, tracking is not active.
C5_NoTrackingAfterClose ==
  IsClose => ~Tracking

\* C6: an Open whose transport open fails returns ERROR_CAMERA_OPEN_FAILED
\* and attempts the transport open exactly once.
C6_OpenFailureCode ==
  (last.op = "Open" /\ ~last.pre.opened /\ ~last.devOk) =>
    (last.ret = "ERROR_CAMERA_OPEN_FAILED" /\ Calls("Device.Open") = 1)

\* C7: on a not-opened device the result of Open follows the transport only:
\* transport success gives SUCCESS with one StartDataTracking and one
\* OnCameraOpen whatever StartDataTracking returns; transport failure gives a
\* failure with neither call and with tracking and callbacks untouched.
C7_OpenResultFollowsTransport ==
  (last.op = "Open" /\ ~last.pre.opened) =>
    IF last.devOk
      THEN /\ last.ret = "SUCCESS"
           /\ Calls("StartDataTracking") = 1
           /\ Calls("Streams.OnCameraOpen") = 1
           /\ device.opened
      ELSE /\ last.ret # "SUCCESS"
           /\ Calls("StartDataTracking") = 0
           /\ Calls("Streams.OnCameraOpen") = 0
           /\ NoChannelCall
           /\ Snapshot = last.pre

C7_Witness ==
  /\ last.op = "Open" /\ ~last.pre.opened /\ last.devOk
  /\ Enabled /\ Avail /\ last.sdt = "false" /\ last.ret = "SUCCESS"
  /\ Calls("Channels.StartHidTracking") = 1

\* C8: with neither inertial data nor image-info enabled, the StartDataTracking
\* that Open invokes returns false, makes no Channels call and leaves the
\* tracking flag and the callbacks as they were.
C8_NoFeatureNoChannelTouch ==
  (last.op = "Open" /\ last.sdt # "none" /\ ~Enabled) =>
    /\ last.sdt = "false"
    /\ NoChannelCall
    /\ Tracking = last.pre.tracking
    /\ channels.imu_callback = last.pre.imu_callback
    /\ channels.img_callback = last.pre.img_callback

C8_Witness ==
  last.op = "Open" /\ last.sdt = "false" /\ ~Enabled /\ Avail /\ last.ret = "SUCCESS"

\* C9: with the side channel unavailable, descriptors are absent, an Open whose
\* transport open succeeds returns SUCCESS, and every StartDataTracking returns
\* false without invoking StartHidTracking, so tracking never becomes active.
C9_UnavailableChannel ==
  ~Avail =>
    /\ descriptors_ = NullPtr
    /\ (last.op = "Open" /\ ~last.pre.opened /\ last.devOk) => last.ret = "SUCCESS"
    /\ last.sdt # "none" =>
         (last.sdt = "false" /\ Calls("Channels.StartHidTracking") = 0)
    /\ ~Tracking

C9_Witness ==
  /\ ~Avail /\ motions.is_motion_datas_enabled /\ last.op = "Open"
  /\ ~last.pre.opened /\ last.ret = "SUCCESS" /\ last.sdt = "false"

SdtWhileTracking == last.sdt # "none" /\ last.pre.tracking

\* C10 (as stated): StartDataTracking invoked while tracking is active returns
\* true, does not invoke StartHidTracking, keeps the tracking flag, and leaves
\* the set of registered callbacks as it was.
C10_StartWhileActiveNoEffect ==
  SdtWhileTracking =>
    /\ last.sdt = "true"
    /\ Calls("Channels.StartHidTracking") = 0
    /\ Tracking
    /\ channels.imu_callback = last.pre.imu_callback
    /\ channels.img_callback = last.pre.img_callback

\* C10 (amended): StartDataTracking invoked while tracking is active returns
\* true, does not invoke StartHidTracking and keeps the tracking flag; the
\* registered callbacks afterwards are those registered before plus the
\* callback of every feature enabled at the call.
C10_StartWhileActive ==
  SdtWhileTracking =>
    /\ last.sdt = "true"
    /\ Calls("Channels.StartHidTracking") = 0
    /\ Tracking
    /\ channels.imu_callback =
         (last.pre.imu_callback \/ motions.is_motion_datas_enabled)
    /\ channels.img_callback =
         (last.pre.img_callback \/ streams.is_image_info_enabled)

C10_Witness ==
  /\ last.op = "EnableImageInfo" /\ last.pre.tracking /\ last.sdt = "true"
  /\ ~last.pre.img_callback /\ channels.img_callback /\ Tracking

\* the operation set its flag first and invoked StartDataTracking once after
\* it, which reached StartHidTracking when that was left to do
ReevaluatesTracking(setter) ==
  /\ Len(last.trace) >= 2
  /\ last.trace[1] = setter
  /\ last.trace[2] = "StartDataTracking"
  /\ Calls("StartDataTracking") = 1
  /\ (Enabled /\ Avail /\ ~last.pre.tracking) => Calls("Channels.StartHidTracking") = 1

\* C11 (as stated): each of EnableImageInfo, EnableStreamData and
\* EnableMotionDatas invokes StartDataTracking after setting its flag, and the
\* call attempts StartHidTracking when a tracked feature is enabled, the
\* channel is available and tracking is not active.
C11_EveryToggleReevaluates ==
  /\ last.op = "EnableImageInfo" => ReevaluatesTracking("Streams.EnableImageInfo")
  /\ last.op = "EnableMotionDatas" => ReevaluatesTracking("Motions.EnableMotionDatas")
  /\ last.op = "EnableStreamData" => ReevaluatesTracking("Streams.EnableStreamData")

\* C11 (amended): EnableImageInfo and EnableMotionDatas invoke
\* StartDataTracking after setting their flag and attempt StartHidTracking when
\* the channel is available and tracking is not active; EnableStreamData only
\* records the stream type and makes no tracking call.
C11_ToggleReevaluates ==
  /\ last.op = "EnableImageInfo" => ReevaluatesTracking("Streams.EnableImageInfo")
  /\ last.op = "EnableMotionDatas" => ReevaluatesTracking("Motions.EnableMotionDatas")
  /\ last.op = "EnableStreamData" =>
       (last.trace = <<"Streams.EnableStreamData">> /\ Tracking = last.pre.tracking)

C11_Witness ==
  /\ last.op = "EnableImageInfo" /\ last.pre.img_callback /\ ~last.pre.tracking
  /\ Avail /\ Tracking /\ Calls("Channels.StartHidTracking") = 1

\* the constructor's flash read took place and succeeded
FlashRead == Avail /\ flash.filesOk

\* C12: GetDescriptor returns the empty value for every tag when the channel
\* was unavailable or the construction-time read failed, and for an
\* unrecognized tag; the descriptor cache is present only after a successful read.
C12_EmptyUnlessPopulated ==
  last.op = "GetDescriptor" =>
    /\ (~FlashRead \/ last.arg \notin KnownDescriptor) => last.val = ""
    /\ descriptors_ # NullPtr => FlashRead

\* the raw inertial calibration was read and flagged ok
ImuRead == FlashRead /\ flash.imu.ok

\* C13: GetMotionIntrinsics and GetMotionExtrinsics return exactly the raw
\* inertial calibration read at construction when the channel was available,
\* the read succeeded and the parameters were flagged ok, and the default
\* value in every other case, whatever operations ran before.
C13_MotionCalibration ==
  /\ last.op = "GetMotionIntrinsics" =>
       last.val = IF ImuRead
                    THEN [accel |-> flash.imu.in_accel, gyro |-> flash.imu.in_gyro]
                    ELSE [accel |-> 0, gyro |-> 0]
  /\ last.op = "GetMotionExtrinsics" =>
       last.val = IF ImuRead THEN flash.imu.ex_left_to_imu ELSE 0

C13_Witness ==
  /\ last.op = "GetMotionIntrinsics" /\ Avail /\ flash.filesOk /\ ~flash.imu.ok
  /\ flash.imu.in_accel = 1 /\ flash.imu.in_gyro = 2
  /\ last.val = [accel |-> 0, gyro |-> 0] /\ last.pre.opened /\ last.pre.tracking

\* C14: WriteDeviceFlash returns false without calling Channels::SetFiles when
\* the channel is unavailable; otherwise it calls SetFiles exactly once and
\* returns its result.
C14_WriteDeviceFlash ==
  last.op = "WriteDeviceFlash" =>
    IF Avail
      THEN Calls("Channels.SetFiles") = 1 /\ last.val = last.arg
      ELSE Calls("Channels.SetFiles") = 0 /\ last.val = FALSE

C14_Witness ==
  last.op = "WriteDeviceFlash" /\ ~Avail /\ last.arg = TRUE /\ last.val = FALSE

\* C15: no step disables a feature: once inertial data, image-info or the
\* data of a stream type is enabled it stays enabled in every later state.
C15_EnablingIsMonotonic ==
  [][/\ motions.is_motion_datas_enabled => motions'.is_motion_datas_enabled
     /\ streams.is_image_info_enabled => streams'.is_image_info_enabled
     /\ streams.stream_data_enabled \subseteq streams'.stream_data_enabled]_vars

C15_Witness ==
  /\ last.op = "Close" /\ last.pre.opened /\ ~device.opened
  /\ motions.is_motion_datas_enabled /\ streams.is_image_info_enabled
  /\ streams.stream_data_enabled = ImageType

\* the lens parameters the claim expects from matrix m and coefficients d
LensOf(w, h, m, d) ==
  [width |-> w \div 2, height |-> h, fx |-> m[1], fy |-> m[5], cx |-> m[3],
   cy |-> m[6], coeffs |-> <<d[1], d[2], d[3], d[4], d[5]>>]
ExpectedIntrinsics(c) ==
  [left  |-> LensOf(c.InImgWidth, c.InImgHeight, c.CamMat1, c.CamDist1),
   right |-> LensOf(c.InImgWidth, c.InImgHeight, c.CamMat2, c.CamDist2)]
ExpectedExtrinsics(c) ==
  [rotation |-> <<<<c.RotaMat[1], c.RotaMat[2], c.RotaMat[3]>>,
                  <<c.RotaMat[4], c.RotaMat[5], c.RotaMat[6]>>,
                  <<c.RotaMat[7], c.RotaMat[8], c.RotaMat[9]>>>>,
   translation |-> <<c.TranMat[1], c.TranMat[2], c.TranMat[3]>>]

\* C16: GetStreamIntrinsics yields per lens the halved width, the height, fx,
\* fy, cx, cy from offsets 0, 4, 2, 5 of that lens's own matrix and the first
\* five distortion coefficients of that lens.
C16_StreamIntrinsics ==
  last.op = "GetStreamIntrinsics" =>
    LET c == last.arg.cal
        l == last.val.left
        r == last.val.right
    IN /\ 2 * l.width <= c.InImgWidth /\ c.InImgWidth < 2 * l.width + 2
       /\ r.width = l.width
       /\ l.height = c.InImgHeight /\ r.height = c.InImgHeight
       /\ l.fx = c.CamMat1[1] /\ l.fy = c.CamMat1[5]
       /\ l.cx = c.CamMat1[3] /\ l.cy = c.CamMat1[6]
       /\ r.fx = c.CamMat2[1] /\ r.fy = c.CamMat2[5]
       /\ r.cx = c.CamMat2[3] /\ r.cy = c.CamMat2[6]
       /\ \A i \in 1..5 : l.coeffs[i] = c.CamDist1[i] /\ r.coeffs[i] = c.CamDist2[i]

C16_Witness ==
  /\ last.op = "GetStreamIntrinsics"
  /\ last.arg.cal.InImgWidth = 5 /\ last.val.left.width = 2
  /\ last.val.right.fy = last.arg.cal.CamMat2[5]

\* C19: GetStreamIntrinsics and GetStreamExtrinsics return, and leave in the
\* cache, exactly what the calibration fetched by this call determines, in
\* every field, whatever an earlier call left in the holder.
C19_CacheOverwritten ==
  /\ last.op = "GetStreamIntrinsics" =>
       /\ Calls("Device.GetCameraCalibration") = 1
       /\ last.val = ExpectedIntrinsics(last.arg.cal)
       /\ stream_intrinsics_ = <<last.val>>
  /\ last.op = "GetStreamExtrinsics" =>
       /\ Calls("Device.GetCameraCalibration") = 1
       /\ last.val = ExpectedExtrinsics(last.arg.cal)
       /\ stream_extrinsics_ = <<last.val>>

C19_Witness ==
  /\ last.op = "GetStreamIntrinsics"
  /\ last.arg.stream_mode = "STREAM_2560x720"
  /\ last.preCache # NullPtr
  /\ last.preCache[1].left.fx \in 1000..1999
  /\ stream_intrinsics_[1].left.fx \in 2000..2999

\* position of the first occurrence of a call in the last operation (0: absent)
Pos(name) ==
  IF Calls(name) = 0 THEN 0
  ELSE CHOOSE i \in DOMAIN last.trace :
         last.trace[i] = name /\ \A j \in 1..(i - 1) : last.trace[j] # name

\* C18: a Close that closes stops tracking iff it was active, then notifies
\* OnCameraClose, then closes the transport, so tracking is off when the
\* transport goes down; a successful Open opens the transport, then runs
\* StartDataTracking, then notifies OnCameraOpen; the transport is closed once
\* per successful open.
C18_OrderOfSteps ==
  /\ (IsClose /\ last.pre.opened) =>
       /\ Calls("Channels.StopHidTracking") = (IF last.pre.tracking THEN 1 ELSE 0)
       /\ Calls("Streams.OnCameraClose") = 1
       /\ Calls("Device.Close") = 1
       /\ Pos("StopDataTracking") < Pos("Streams.OnCameraClose")
       /\ Pos("Channels.StopHidTracking") < Pos("Streams.OnCameraClose")
       /\ Pos("Streams.OnCameraClose") < Pos("Device.Close")
       /\ ~Tracking /\ ~device.opened
  /\ (IsClose /\ ~last.pre.opened) => Calls("Device.Close") = 0
  /\ (last.op = "Open" /\ ~last.pre.opened /\ last.devOk) =>
       /\ Calls("Device.Open") = 1
       /\ Calls("StartDataTracking") = 1
       /\ Calls("Streams.OnCameraOpen") = 1
       /\ Pos("Device.Open") < Pos("StartDataTracking")
       /\ Pos("StartDataTracking") < Pos("Streams.OnCameraOpen")
       /\ Pos("Streams.OnCameraOpen") = Len(last.trace)
  /\ device.opened <=> okOpensSinceClose = 1
  /\ ~alive => ~device.opened

C18_Witness ==
  /\ last.op = "Close" /\ last.pre.opened /\ last.pre.tracking
  /\ Calls("Channels.StopHidTracking") = 1 /\ okOpensSinceClose = 0

\* C20: the inertial callback is registered iff inertial data is enabled and
\* the image-info callback iff image-info is enabled, whatever the open state,
\* the availability of the channel and the tracking state; so tracking is
\* never active without an enabled feature or with an enabled feature whose
\* callback slot is empty.
C20_CallbacksFollowFeatures ==
  /\ channels.imu_callback <=> motions.is_motion_datas_enabled
  /\ channels.img_callback <=> streams.is_image_info_enabled
  /\ Tracking => Enabled
  /\ (Tracking /\ motions.is_motion_datas_enabled) => channels.imu_callback
  /\ (Tracking /\ streams.is_image_info_enabled) => channels.img_callback

C20_Witness ==
  /\ ~Avail /\ ~device.opened /\ ~Tracking
  /\ motions.is_motion_datas_enabled /\ channels.imu_callback
  /\ ~streams.is_image_info_enabled /\ ~channels.img_callback

\* C17: with a toggle call, Open and Close running concurrently, no
\* interleaving invokes StartHidTracking while tracking is already active and
\* none leaves tracking active when a Close that closed the device returns.
C17_TrackingDecisionSerialized ==
  /\ ~conc.startWhileActive
  /\ conc.closeTracking # "active"
====
